---- MODULE Spec2Model ----
(***************************************************************************)
(* Concur expense tax-code checker (src/app.py): load two tables, normalise *)
(* the expense report, build the (category, country) -> rate table and      *)
(* compare the recorded tax of every expense with amount * rate.            *)
(*                                                                          *)
(* Numbers in the program are IEEE-754 binary64 values (pandas float64 /    *)
(* Python float).  They are modelled exactly: a double is a sign, a 53-bit  *)
(* significand and a binary exponent; every operation is computed exactly   *)
(* and rounded once, to nearest, ties to even.  The values of the model     *)
(* stay far from the overflow and subnormal ranges, which are therefore not *)
(* modelled.  A significand is too wide for one machine integer of the      *)
(* checker, so naturals are kept as sequences of 13-bit limbs.              *)
(***************************************************************************)
EXTENDS Integers, Sequences, FiniteSets, TLC

(***************************************************************************)
(* Natural numbers of any size: sequences of limbs (digits in base 2^13),   *)
(* least significant first, without high zero limbs (<<>> is 0).            *)
(***************************************************************************)
LimbBits == 13

Base == 2 ^ LimbBits

MaxOf(x, y) == IF x >= y THEN x ELSE y

MinOf(x, y) == IF x <= y THEN x ELSE y

Limb(a, i) == IF i >= 1 /\ i <= Len(a) THEN a[i] ELSE 0

Trim(a) ==
    IF \A i \in 1..Len(a) : a[i] = 0 THEN <<>>
    ELSE SubSeq(a, 1, CHOOSE i \in 1..Len(a) :
                          a[i] # 0 /\ \A j \in (i + 1)..Len(a) : a[j] = 0)

\* digits of any size (negative ones too) brought back into 0..Base-1,
\* the carries and borrows moving up; the value must be >= 0
RECURSIVE Carry(_, _, _, _)
Carry(ds, i, c, acc) ==
    IF i > Len(ds)
    THEN (IF c = 0 THEN Trim(acc) ELSE Carry(<<c>>, 1, 0, acc))
    ELSE Carry(ds, i + 1, (ds[i] + c) \div Base, Append(acc, (ds[i] + c) % Base))

Normalize(ds) == Carry(ds, 1, 0, <<>>)

NatToLimbs(n) == Normalize(<<n>>)

\* for values below 2^31 only
LimbsToNat(a) == Limb(a, 1) + Base * Limb(a, 2) + Base * Base * Limb(a, 3)

AddL(a, b) == Normalize([i \in 1..MaxOf(Len(a), Len(b)) |-> Limb(a, i) + Limb(b, i)])

\* a - b for a >= b
SubL(a, b) == Normalize([i \in 1..Len(a) |-> a[i] - Limb(b, i)])

\* column k of the schoolbook product; at most five limbs in a
MulL(a, b) ==
    LET col(k) == Limb(a, 1) * Limb(b, k) + Limb(a, 2) * Limb(b, k - 1)
                  + Limb(a, 3) * Limb(b, k - 2) + Limb(a, 4) * Limb(b, k - 3)
                  + Limb(a, 5) * Limb(b, k - 4)
    IN  Normalize([k \in 1..(Len(a) + Len(b)) |-> col(k)])

\* -1, 0, 1 as a < b, a = b, a > b
CmpL(a, b) ==
    IF Len(a) # Len(b) THEN (IF Len(a) > Len(b) THEN 1 ELSE -1)
    ELSE IF a = b THEN 0
    ELSE LET i == CHOOSE i \in 1..Len(a) :
                      a[i] # b[i] /\ \A j \in (i + 1)..Len(a) : a[j] = b[j]
         IN  IF a[i] > b[i] THEN 1 ELSE -1

\* bit j of a, j = 1 the least significant
BitAt(a, j) ==
    (Limb(a, ((j - 1) \div LimbBits) + 1) \div (2 ^ ((j - 1) % LimbBits))) % 2

AnyBit(a, k) == \E j \in 1..k : BitAt(a, j) = 1

BitLen(a) ==
    IF Len(a) = 0 THEN 0
    ELSE LimbBits * (Len(a) - 1)
         + (CHOOSE n \in 1..LimbBits : 2 ^ (n - 1) <= a[Len(a)] /\ a[Len(a)] < 2 ^ n)

ShiftLeft(a, k) ==
    LET s == k \div LimbBits
        r == k % LimbBits
    IN  Normalize([i \in 1..(Len(a) + s) |-> IF i <= s THEN 0 ELSE a[i - s] * (2 ^ r)])

ShiftRight(a, k) ==
    LET s == k \div LimbBits
        r == k % LimbBits
    IN  IF s >= Len(a) THEN <<>>
        ELSE Trim([i \in 1..(Len(a) - s) |->
                     (a[i + s] \div (2 ^ r))
                     + (Limb(a, i + s + 1) % (2 ^ r)) * (2 ^ (LimbBits - r))])

\* long division of a by a small positive integer d, from the high limb down
RECURSIVE DivC(_, _, _, _, _)
DivC(a, d, i, r, q) ==
    IF i = 0 THEN [q |-> Trim(q), r |-> r]
    ELSE DivC(a, d, i - 1, (Base * r + a[i]) % d, <<(Base * r + a[i]) \div d>> \o q)

DivSmall(a, d) == DivC(a, d, Len(a), 0, <<>>)

(***************************************************************************)
(* binary64.  A number is [nan, neg, m, e]: the value (-1)^neg * m * 2^e    *)
(* with m of exactly 53 bits, or zero (m empty, e = 0), or not-a-number.    *)
(***************************************************************************)
SigBits == 53

DNaN == [nan |-> TRUE, neg |-> FALSE, m |-> <<>>, e |-> 0]

DZero(neg) == [nan |-> FALSE, neg |-> neg, m |-> <<>>, e |-> 0]

IsZero(x) == ~x.nan /\ Len(x.m) = 0

\* the double nearest to (-1)^neg * (m + f) * 2^e, where 0 <= f < 1 and f > 0
\* exactly when sticky; ties go to the even significand
Round53(neg, m, e, sticky) ==
    LET L == BitLen(m)
    IN  IF L = 0 THEN DZero(neg)
        ELSE IF L <= SigBits
        THEN [nan |-> FALSE, neg |-> neg, m |-> ShiftLeft(m, SigBits - L),
              e |-> e - (SigBits - L)]
        ELSE LET d    == L - SigBits
                 q    == ShiftRight(m, d)
                 rest == AnyBit(m, d - 1) \/ sticky
                 up   == BitAt(m, d) = 1 /\ (rest \/ BitAt(q, 1) = 1)
                 q2   == IF up THEN AddL(q, <<1>>) ELSE q
             IN  IF BitLen(q2) > SigBits
                 THEN [nan |-> FALSE, neg |-> neg, m |-> ShiftRight(q2, 1), e |-> e + d + 1]
                 ELSE [nan |-> FALSE, neg |-> neg, m |-> q2, e |-> e + d]

\* the double a decimal text "n / 10^k" denotes (the float parser of the
\* loader, of pd.to_numeric and of the literal 0.01); n < 2^17, k <= 4
ScaleBits == 72

FromDecimal(neg, n, k) ==
    IF n = 0 THEN DZero(neg)
    ELSE LET d == DivSmall(ShiftLeft(NatToLimbs(n), ScaleBits), 10 ^ k)
         IN  Round53(neg, d.q, 0 - ScaleBits, d.r # 0)

FNeg(x) == IF x.nan THEN x ELSE [x EXCEPT !.neg = ~x.neg]

FAbs(x) == IF x.nan THEN x ELSE [x EXCEPT !.neg = FALSE]

FMul(x, y) ==
    IF x.nan \/ y.nan THEN DNaN
    ELSE IF IsZero(x) \/ IsZero(y) THEN DZero(x.neg # y.neg)
    ELSE Round53(x.neg # y.neg, MulL(x.m, y.m), x.e + y.e, FALSE)

\* the two significands over the common exponent MinOf(x.e, y.e)
Aligned(x, y) ==
    LET e0 == IF IsZero(x) THEN y.e ELSE IF IsZero(y) THEN x.e ELSE MinOf(x.e, y.e)
    IN  [e |-> e0,
         a |-> IF IsZero(x) THEN <<>> ELSE ShiftLeft(x.m, x.e - e0),
         b |-> IF IsZero(y) THEN <<>> ELSE ShiftLeft(y.m, y.e - e0)]

FAdd(x, y) ==
    IF x.nan \/ y.nan THEN DNaN
    ELSE LET al == Aligned(x, y)
             c  == CmpL(al.a, al.b)
         IN  IF x.neg = y.neg THEN Round53(x.neg, AddL(al.a, al.b), al.e, FALSE)
             ELSE IF c = 0 THEN DZero(FALSE)
             ELSE IF c > 0 THEN Round53(x.neg, SubL(al.a, al.b), al.e, FALSE)
             ELSE Round53(y.neg, SubL(al.b, al.a), al.e, FALSE)

FSub(x, y) == FAdd(x, FNeg(y))

\* a comparison written "not (x <= y)": true of a not-a-number
FGtUnordered(x, y) ==
    IF x.nan \/ y.nan THEN TRUE
    ELSE LET al == Aligned(x, y)
             c  == CmpL(al.a, al.b)
         IN  IF IsZero(x) /\ IsZero(y) THEN FALSE
             ELSE IF x.neg /\ ~y.neg THEN FALSE
             ELSE IF ~x.neg /\ y.neg THEN TRUE
             ELSE IF x.neg THEN c < 0
             ELSE c > 0

\* x > y; false when either is not-a-number
FGt(x, y) ==
    IF x.nan \/ y.nan THEN FALSE
    ELSE LET al == Aligned(x, y)
             c  == CmpL(al.a, al.b)
         IN  IF IsZero(x) /\ IsZero(y) THEN FALSE
             ELSE IF x.neg /\ ~y.neg THEN FALSE
             ELSE IF ~x.neg /\ y.neg THEN TRUE
             ELSE IF x.neg THEN c < 0
             ELSE c > 0

\* format(x, ".2f"): the exact value rounded to hundredths, ties to even
\* (the magnitude in hundredths, below 2^31)
Hundredths(x) ==
    LET M == MulL(x.m, NatToLimbs(100))
    IN  IF x.e >= 0 THEN LimbsToNat(ShiftLeft(M, x.e))
        ELSE LET d    == 0 - x.e
                 q    == ShiftRight(M, d)
                 rest == AnyBit(M, d - 1)
                 up   == BitAt(M, d) = 1 /\ (rest \/ BitAt(q, 1) = 1)
             IN  LimbsToNat(q) + (IF up THEN 1 ELSE 0)

Format2f(x) ==
    IF x.nan THEN "nan"
    ELSE LET h == IF IsZero(x) THEN 0 ELSE Hundredths(x)
         IN  (IF x.neg THEN "-" ELSE "") \o ToString(h \div 100) \o "."
             \o ToString((h % 100) \div 10) \o ToString(h % 10)

(***************************************************************************)
(* Cells of the loaded tables.                                              *)
(*   A text cell is a string; a blank text cell is loaded as NaN.           *)
(*   A number cell is [t, n, k]: t = "dec" is the double written n / 10^k   *)
(*   (a double is named by its shortest decimal text, as repr does),        *)
(*   t = "str" is text that is no number, t = "nan" is the float NaN, the   *)
(*   value of a blank cell, and t = "none" is Python's None.                *)
(***************************************************************************)
NaN == "NaN"

None == "None"

Dec(n, k) == [t |-> "dec", n |-> n, k |-> k]

Str == [t |-> "str", n |-> 0, k |-> 0]

NaNum == [t |-> "nan", n |-> 0, k |-> 0]

NoneNum == [t |-> "none", n |-> 0, k |-> 0]

\* pd.isna on a text cell
IsNa(x) == x = NaN \/ x = None

\* pd.to_numeric(column, errors='coerce'), cell by cell
ToNumeric(c) == IF c.t = "dec" THEN c ELSE NaNum

\* 0.01, the tolerance of analyze_vat
Tolerance == FromDecimal(FALSE, 1, 2)

(***************************************************************************)
(* Bounds and the cell values the tables are drawn from.                    *)
(***************************************************************************)
MaxReportRows == 2

MaxConfigRows == 2

Expenses == {"Hotel", "Meal"}

AmountCells == {Dec(100, 0), Str}

TaxCells == {Dec(19, 0), Dec(1901, 2), Str}

Categories == {"Lodging", NaN}

ReportCountries == {"DE", "FR"}

Codes == {"V1", "V2"}

RateCells == {Dec(19, 2), Dec(2, 1)}

ConfigCountries == {"DE"}

\* the double each number cell of the model holds, computed once
NumberCells == AmountCells \cup TaxCells \cup RateCells \cup {Str, NaNum, NoneNum}

Double == [c \in NumberCells |-> IF c.t = "dec" THEN FromDecimal(FALSE, c.n, c.k) ELSE DNaN]

D(c) == Double[c]

ReportCols == {"Expense", "Amount", "Tax", "Category", "Country", "Currency"}

ConfigCols == {"TaxCode", "TaxRate", "Category", "Country"}

\* rows with a parseable amount in every combination but a blank category
\* abroad; rows without one in one combination of the other cells for each
\* expense
ReportRows ==
    { r \in [Expense : Expenses, Amount : AmountCells, Tax : TaxCells,
             Category : Categories, Country : ReportCountries, Currency : {"EUR"}] :
        \/ r.Amount.t = "dec" /\ ~(r.Category = NaN /\ r.Country = "FR")
        \/ r.Tax = Dec(19, 0) /\ r.Category = "Lodging" /\ r.Country = "DE" }

ConfigRows ==
    [TaxCode : Codes, TaxRate : RateCells, Category : Categories, Country : ConfigCountries]

SeqsUpTo(S, n) == UNION { [1..k -> S] : k \in 0..n }

\* a table is its column names and its rows; a table that lacks a column
\* has no rows or one row (what its other cells hold decides nothing)
ReportTables ==
    { [cols |-> ReportCols, rows |-> rs] : rs \in SeqsUpTo(ReportRows, MaxReportRows) }
    \cup { [cols |-> ReportCols \ {c}, rows |-> rs] :
             c \in ReportCols,
             rs \in SeqsUpTo({r \in ReportRows : r.Expense = "Hotel" /\ r.Tax = Dec(19, 0)
                                                 /\ r.Category = "Lodging" /\ r.Country = "DE"}, 1) }

ConfigTables ==
    { [cols |-> ConfigCols, rows |-> rs] : rs \in SeqsUpTo(ConfigRows, MaxConfigRows) }
    \cup { [cols |-> ConfigCols \ {c}, rows |-> rs] :
             c \in ConfigCols,
             rs \in SeqsUpTo({r \in ConfigRows : r.TaxCode = "V1" /\ r.TaxRate = Dec(19, 2)
                                                 /\ r.Category = "Lodging"}, 1) }

NoTable == [cols |-> {}, rows |-> <<>>]

(***************************************************************************)
(* parse_concur_report                                                      *)
(***************************************************************************)
\* the six data[...] lookups of the DataFrame constructor
ReportSelectors == {"Expense", "Amount", "Tax", "Category", "Country", "Currency"}

ReportKeyError(data) == \E c \in ReportSelectors : c \notin data.cols

\* one row of the DataFrame built at lines 19-26; idx is the index label
NormalRow(data, i) ==
    [idx      |-> i,
     Expense  |-> data.rows[i].Expense,
     Amount   |-> ToNumeric(data.rows[i].Amount),
     Tax      |-> ToNumeric(data.rows[i].Tax),
     Category |-> data.rows[i].Category,
     Country  |-> data.rows[i].Country,
     Currency |-> data.rows[i].Currency]

\* df.dropna() without the subset: a row goes when any number of it is missing
RECURSIVE DropNaAny(_)
DropNaAny(rows) ==
    IF Len(rows) = 0 THEN <<>>
    ELSE IF Head(rows).Amount.t = "nan" \/ Head(rows).Tax.t = "nan" THEN DropNaAny(Tail(rows))
    ELSE <<Head(rows)>> \o DropNaAny(Tail(rows))

\* df.dropna(subset=["Amount"]) on a list of rows
RECURSIVE DropNa(_)
DropNa(rows) ==
    IF Len(rows) = 0 THEN <<>>
    ELSE IF Head(rows).Amount.t = "nan" THEN DropNa(Tail(rows))
    ELSE <<Head(rows)>> \o DropNa(Tail(rows))

parse_concur_report(data) == DropNa([i \in 1..Len(data.rows) |-> NormalRow(data, i)])

(***************************************************************************)
(* parse_tax_config                                                         *)
(***************************************************************************)
\* the four row[...] lookups of one pass of the loop
ConfigSelectors == {"TaxCode", "TaxRate", "Category", "Country"}

ConfigKeyError(data) == \E c \in ConfigSelectors : c \notin data.cols

\* lines 50-53
NoneIfNa(x) == IF IsNa(x) THEN None ELSE x

\* the code taken into the key
RowKeyWithCode(row) == <<row.TaxCode, NoneIfNa(row.Country)>>

RowKey(row) == <<NoneIfNa(row.Category), NoneIfNa(row.Country)>>

\* tax_config.setdefault((category, country), rate): the first row wins
PutIfAbsent(d, row) ==
    [k \in DOMAIN d \cup {RowKey(row)} |-> IF k \in DOMAIN d THEN d[k] ELSE row.TaxRate]

\* tax_config[(category, country)] = rate
Put(d, row) ==
    [k \in DOMAIN d \cup {RowKey(row)} |-> IF k = RowKey(row) THEN row.TaxRate ELSE d[k]]

EmptyDict == [k \in {} |-> NaNum]

(***************************************************************************)
(* analyze_vat                                                              *)
(***************************************************************************)
\* == of two tuple components: NaN equals nothing
PyEq(x, y) == x = y /\ x # NaN

KeyEq(p, q) == PyEq(p[1], q[1]) /\ PyEq(p[2], q[2])

\* tax_config.get((category, country))
Get(d, key) ==
    IF \E q \in DOMAIN d : KeyEq(q, key)
    THEN d[CHOOSE q \in DOMAIN d : KeyEq(q, key)]
    ELSE NoneNum

\* the message without the expense
MissingMsgNoExpense(expense) == "Missing tax code for expense: "

MissingMsg(expense) == "Missing tax code for expense: " \o expense

MismatchMsg(expense, expected_tax) ==
    "Potential tax code mismatch for expense: " \o expense
    \o ", expected tax: " \o Format2f(expected_tax)

\* the issues one pass of the loop appends for a row (none or one)
IssuesFor(row, d) ==
    LET expected_rate == Get(d, <<row.Category, row.Country>>)
        expected_tax  == FMul(D(row.Amount), D(expected_rate))
    IN  IF expected_rate = NoneNum
        THEN <<MissingMsg(row.Expense)>>
        ELSE IF FGt(FAbs(FSub(D(row.Tax), expected_tax)), Tolerance)
        THEN <<MismatchMsg(row.Expense, expected_tax)>>
        ELSE <<>>

\* issues.insert(0, ...)
EmitFront(issues_, new) == new \o issues_

\* issues.append(...)
Emit(issues_, new) == issues_ \o new

(***************************************************************************)
(* load_file                                                                *)
(***************************************************************************)
\* an uploaded file: its name as the list of its dot-separated parts, and
\* whether the reader can parse its content
NoFile == [name |-> <<>>, readable |-> FALSE]

FileNames ==
    { <<"report", "csv">>, <<"report", "CSV">>, <<"report", "xlsx">>, <<"report", "xls">>,
      <<"report", "txt">>, <<"report", "csv", "bak">>, <<"csv">> }

Files == [name : FileNames, readable : BOOLEAN]

\* str.lower on the parts that occur
Lower(part) == IF part = "CSV" THEN "csv" ELSE part

\* uploaded_file.name.split('.')[-1].lower()
file_extension(f) == Lower(f.name[Len(f.name)])

\* what load_file does with a file: "read_csv" / "read_excel" (the reader is
\* called), "unsupported" (st.error, return None) or "none" (return None)
Dispatch(f) ==
    IF f = NoFile THEN "none"
    ELSE IF file_extension(f) = "csv" THEN "read_csv"
    ELSE IF file_extension(f) \in {"xlsx", "xls"} THEN "read_excel"
    ELSE "unsupported"

UnsupportedMsg == "Unsupported file type. Please upload a CSV or Excel file."

(***************************************************************************)
(* State                                                                    *)
(***************************************************************************)
VARIABLES
    pc,             \* the operation in progress
    config,         \* data of parse_tax_config
    config_alt,     \* the same table with other values in the code column
    tax_config,     \* the dictionary parse_tax_config builds
    tax_config_alt, \* the dictionary built from config_alt
    ci,             \* rows of config the loop of parse_tax_config has passed
    report,         \* data of parse_concur_report
    expense_data,   \* the DataFrame parse_concur_report returns
    ai,             \* rows of expense_data the loop of analyze_vat has passed
    issues,         \* the list analyze_vat builds
    issues_alt,     \* the list built with tax_config_alt
    error,          \* the exception that left the operation, "" for none
    uploaded_file,  \* the argument of load_file
    df,             \* the table load_file returns
    returned,       \* "" before load_file returns, then "df" or "None"
    st_errors       \* the messages shown with st.error

vars == <<pc, config, config_alt, tax_config, tax_config_alt, ci, report, expense_data,
          ai, issues, issues_alt, error, uploaded_file, df, returned, st_errors>>

coreVars == <<config, config_alt, tax_config, tax_config_alt, ci, report, expense_data,
              ai, issues, issues_alt>>

loadVars == <<uploaded_file, df, returned, st_errors>>

\* the tables that differ from t in the code column alone
CodeVariants(t) ==
    { [cols |-> t.cols,
       rows |-> [i \in 1..Len(t.rows) |-> [t.rows[i] EXCEPT !.TaxCode = cs[i]]]] :
        cs \in [1..Len(t.rows) -> Codes] }

(***************************************************************************)
(* The core: parse_tax_config, then parse_concur_report, then analyze_vat.  *)
(***************************************************************************)
Init ==
    /\ pc = "parse_tax_config"
    /\ config \in ConfigTables
    /\ config_alt \in CodeVariants(config)
    /\ tax_config = EmptyDict
    /\ tax_config_alt = EmptyDict
    /\ ci = 0
    /\ report = NoTable
    /\ expense_data = <<>>
    /\ ai = 0
    /\ issues = <<>>
    /\ issues_alt = <<>>
    /\ error = ""
    /\ uploaded_file = NoFile
    /\ df = NoTable
    /\ returned = ""
    /\ st_errors = <<>>

\* one pass of the loop at lines 44-55
ParseTaxConfigRow ==
    /\ pc = "parse_tax_config"
    /\ ci < Len(config.rows)
    /\ ~ConfigKeyError(config)
    /\ tax_config' = Put(tax_config, config.rows[ci + 1])
    /\ tax_config_alt' = Put(tax_config_alt, config_alt.rows[ci + 1])
    /\ ci' = ci + 1
    /\ UNCHANGED <<pc, config, config_alt, report, expense_data, ai, issues, issues_alt,
                   error>>
    /\ UNCHANGED loadVars

\* row[...] of a column the table lacks
ParseTaxConfigRaise ==
    /\ pc = "parse_tax_config"
    /\ ci < Len(config.rows)
    /\ ConfigKeyError(config)
    /\ pc' = "raised"
    /\ error' = "KeyError"
    /\ UNCHANGED coreVars
    /\ UNCHANGED loadVars

\* line 56; data is dead once the dictionary is returned
ParseTaxConfigReturn ==
    /\ pc = "parse_tax_config"
    /\ ci = Len(config.rows)
    /\ pc' = "parse_concur_report"
    /\ config' = NoTable
    /\ config_alt' = NoTable
    /\ UNCHANGED <<tax_config, tax_config_alt, ci, report, expense_data, ai, issues,
                   issues_alt, error>>
    /\ UNCHANGED loadVars

\* lines 19-28 on a table that has the six columns
ParseConcurReport ==
    /\ pc = "parse_concur_report"
    /\ \E data \in ReportTables :
          /\ ~ReportKeyError(data)
          /\ report' = data
          /\ expense_data' = parse_concur_report(data)
    /\ pc' = "analyze_vat"
    /\ UNCHANGED <<config, config_alt, tax_config, tax_config_alt, ci, ai, issues,
                   issues_alt, error>>
    /\ UNCHANGED loadVars

\* data[...] of a column the table lacks
ParseConcurReportRaise ==
    /\ pc = "parse_concur_report"
    /\ \E data \in ReportTables :
          /\ ReportKeyError(data)
          /\ report' = data
    /\ pc' = "raised"
    /\ error' = "KeyError"
    /\ UNCHANGED <<config, config_alt, tax_config, tax_config_alt, ci, expense_data, ai,
                   issues, issues_alt>>
    /\ UNCHANGED loadVars

\* one pass of the loop at lines 69-83
AnalyzeRow ==
    /\ pc = "analyze_vat"
    /\ ai < Len(expense_data)
    /\ issues' = Emit(issues, IssuesFor(expense_data[ai + 1], tax_config))
    /\ issues_alt' = Emit(issues_alt, IssuesFor(expense_data[ai + 1], tax_config_alt))
    /\ ai' = ai + 1
    /\ UNCHANGED <<pc, config, config_alt, tax_config, tax_config_alt, ci, report,
                   expense_data, error>>
    /\ UNCHANGED loadVars

\* line 85
AnalyzeReturn ==
    /\ pc = "analyze_vat"
    /\ ai = Len(expense_data)
    /\ pc' = "done"
    /\ UNCHANGED coreVars
    /\ UNCHANGED error
    /\ UNCHANGED loadVars

Next ==
    \/ ParseTaxConfigRow
    \/ ParseTaxConfigRaise
    \/ ParseTaxConfigReturn
    \/ ParseConcurReport
    \/ ParseConcurReportRaise
    \/ AnalyzeRow
    \/ AnalyzeReturn

Spec == Init /\ [][Next]_vars

(***************************************************************************)
(* The load boundary: one call of load_file.                                *)
(***************************************************************************)
\* the tables a reader can return
LoadedTables == ReportTables \cup ConfigTables

InitLoad ==
    /\ pc = "load_file"
    /\ uploaded_file \in Files \cup {NoFile}
    /\ df = NoTable
    /\ returned = ""
    /\ st_errors = <<>>
    /\ error = ""
    /\ config = NoTable
    /\ config_alt = NoTable
    /\ tax_config = EmptyDict
    /\ tax_config_alt = EmptyDict
    /\ ci = 0
    /\ report = NoTable
    /\ expense_data = <<>>
    /\ ai = 0
    /\ issues = <<>>
    /\ issues_alt = <<>>

\* lines 99-102 and 107: the reader parses the file and df is returned
LoadFileRead ==
    /\ pc = "load_file"
    /\ Dispatch(uploaded_file) \in {"read_csv", "read_excel"}
    /\ uploaded_file.readable
    /\ \E t \in LoadedTables : df' = t
    /\ returned' = "df"
    /\ pc' = "loaded"
    /\ UNCHANGED <<uploaded_file, st_errors, error>>
    /\ UNCHANGED coreVars

\* lines 99-102: the reader raises; nothing in load_file catches it
LoadFileReadRaises ==
    /\ pc = "load_file"
    /\ Dispatch(uploaded_file) \in {"read_csv", "read_excel"}
    /\ ~uploaded_file.readable
    /\ error' = "ParserError"
    /\ pc' = "raised"
    /\ UNCHANGED <<uploaded_file, df, returned, st_errors>>
    /\ UNCHANGED coreVars

\* lines 103-105
LoadFileUnsupported ==
    /\ pc = "load_file"
    /\ Dispatch(uploaded_file) = "unsupported"
    /\ st_errors' = Append(st_errors, UnsupportedMsg)
    /\ returned' = "None"
    /\ pc' = "loaded"
    /\ UNCHANGED <<uploaded_file, df, error>>
    /\ UNCHANGED coreVars

\* lines 108-109
LoadFileNone ==
    /\ pc = "load_file"
    /\ Dispatch(uploaded_file) = "none"
    /\ returned' = "None"
    /\ pc' = "loaded"
    /\ UNCHANGED <<uploaded_file, df, st_errors, error>>
    /\ UNCHANGED coreVars

NextLoad ==
    \/ LoadFileRead
    \/ LoadFileReadRaises
    \/ LoadFileUnsupported
    \/ LoadFileNone

SpecLoad == InitLoad /\ [][NextLoad]_vars

(***************************************************************************)
(* Properties                                                               *)
(***************************************************************************)
Analysed == pc \in {"analyze_vat", "done"}

\* the row AnalyzeRow is about to pass, and the row of the report it was made of
NextRow == expense_data[ai + 1]

SourceOf(r) == report.rows[r.idx]

AtRow == pc = "analyze_vat" /\ ai < Len(expense_data)

\* exact decimal arithmetic on the decimal texts: |tax - amount * rate| > 0.01
DecExceeds(tax, amount, rate) ==
    LET lhs == tax.n * (10 ^ (amount.k + rate.k)) - amount.n * rate.n * (10 ^ tax.k)
        mag == IF lhs < 0 THEN 0 - lhs ELSE lhs
    IN  mag * 100 > 10 ^ (amount.k + rate.k + tax.k)

\* amount * rate in hundredths, for products that are whole hundredths
DecProduct(amount, rate) == (amount.n * rate.n * 100) \div (10 ^ (amount.k + rate.k))

DecFormat(h) == ToString(h \div 100) \o "." \o ToString((h % 100) \div 10) \o ToString(h % 10)

\* C1: a record whose (category, country) is a key of the rate table gets
\* exactly one "Potential tax code mismatch ... expected tax: <amount*rate to
\* two decimals>" issue when |tax - amount*rate| > 0.01 and no issue when
\* |tax - amount*rate| <= 0.01, the difference being that of the decimal
\* values of the report and the rate table (0.01 itself gives no issue).
C1Original ==
    [][ (/\ AtRow
         /\ <<NextRow.Category, NextRow.Country>> \in DOMAIN tax_config
         /\ NextRow.Tax.t = "dec"
         /\ tax_config[<<NextRow.Category, NextRow.Country>>].t = "dec")
        => LET rate == tax_config[<<NextRow.Category, NextRow.Country>>]
           IN  IF DecExceeds(NextRow.Tax, NextRow.Amount, rate)
               THEN issues' = Append(issues,
                                "Potential tax code mismatch for expense: "
                                \o NextRow.Expense \o ", expected tax: "
                                \o DecFormat(DecProduct(NextRow.Amount, rate)))
               ELSE issues' = issues ]_vars

\* the (category, country) of a record with a blank read as null
NullKey(r) ==
    << IF r.Category = NaN THEN None ELSE r.Category,
       IF r.Country = NaN THEN None ELSE r.Country >>

\* C2: a record whose (category, country) has no rule in the rate table gets
\* exactly one issue, "Missing tax code for expense: <expense>", and no
\* mismatch issue.
C2MissingRule ==
    [][ (AtRow /\ NullKey(NextRow) \notin DOMAIN tax_config)
        => issues' = Append(issues, "Missing tax code for expense: " \o NextRow.Expense) ]_vars

C2Witness ==
    /\ Analysed
    /\ ai >= 1
    /\ NullKey(expense_data[ai]) \notin DOMAIN tax_config
    /\ DOMAIN tax_config # {}
    /\ Len(issues) = ai
    /\ issues[ai] = "Missing tax code for expense: Meal"

\* C3: a report row with a blank Category and Country "DE" matches the rule
\* (null, "DE") of the rate table (it is compared with the rate, never
\* reported as "Missing tax code"), and when that is the only rule no record
\* with another category or country matches it.
C3Original ==
    [][ (AtRow /\ <<None, "DE">> \in DOMAIN tax_config)
        => /\ (SourceOf(NextRow).Category = NaN /\ SourceOf(NextRow).Country = "DE")
              => issues' # Append(issues, "Missing tax code for expense: " \o NextRow.Expense)
           /\ (/\ DOMAIN tax_config = {<<None, "DE">>}
               /\ (SourceOf(NextRow).Category # NaN \/ SourceOf(NextRow).Country # "DE"))
              => issues' = Append(issues, "Missing tax code for expense: " \o NextRow.Expense)
      ]_vars

\* C4: parse_concur_report returns exactly the rows of the source whose
\* amount is a number, in source order; a row with a number for amount is
\* kept when its tax is none (the tax is then missing), its other cells
\* copied as they are.
C4Normalized ==
    Analysed =>
        /\ \A i \in 1..Len(expense_data) : expense_data[i].Amount.t = "dec"
        /\ {expense_data[i].idx : i \in 1..Len(expense_data)}
              = {j \in 1..Len(report.rows) : report.rows[j].Amount.t = "dec"}
        /\ \A i, j \in 1..Len(expense_data) :
              i < j => expense_data[i].idx < expense_data[j].idx
        /\ \A i \in 1..Len(expense_data) :
              LET r == expense_data[i]
                  src == report.rows[r.idx]
              IN  /\ r.Expense = src.Expense
                  /\ r.Amount = src.Amount
                  /\ r.Tax = (IF src.Tax.t = "dec" THEN src.Tax ELSE NaNum)
                  /\ r.Category = src.Category
                  /\ r.Country = src.Country
                  /\ r.Currency = src.Currency

C4Witness ==
    /\ Analysed
    /\ Len(report.rows) = 2
    /\ report.rows[1].Amount.t = "str"
    /\ report.rows[2].Tax.t = "str"
    /\ Len(expense_data) = 1
    /\ expense_data[1].idx = 2
    /\ expense_data[1].Tax = NaNum

\* the key a configuration row carries, a blank read as null
ConfigKey(row) ==
    << IF row.Category = NaN THEN None ELSE row.Category,
       IF row.Country = NaN THEN None ELSE row.Country >>

\* C5: after any number of rows of the configuration, the table holds one
\* entry for each (category, country) seen so far, with the rate of the last
\* row seen that carries the pair.
C5LastWriteWins ==
    pc = "parse_tax_config" =>
        /\ DOMAIN tax_config = {ConfigKey(config.rows[i]) : i \in 1..ci}
        /\ \A i \in 1..ci :
              (\A j \in (i + 1)..ci : ConfigKey(config.rows[j]) # ConfigKey(config.rows[i]))
              => tax_config[ConfigKey(config.rows[i])] = config.rows[i].TaxRate

C5Witness ==
    /\ pc = "parse_tax_config"
    /\ ci = 2
    /\ config.rows[1].Category = NaN
    /\ ConfigKey(config.rows[1]) = ConfigKey(config.rows[2])
    /\ config.rows[1].TaxRate # config.rows[2].TaxRate
    /\ tax_config[<<None, "DE">>] = config.rows[2].TaxRate

RECURSIVE IssuesOfPrefix(_)
IssuesOfPrefix(n) ==
    IF n = 0 THEN <<>>
    ELSE IssuesOfPrefix(n - 1) \o IssuesFor(expense_data[n], tax_config)

\* C6: after any prefix of the records, the issue list is the issues of the
\* records of the prefix, in the order of the records, at most one a record.
C6InOrder ==
    Analysed =>
        /\ issues = IssuesOfPrefix(ai)
        /\ Len(issues) <= ai

C6Witness ==
    /\ Analysed
    /\ ai = 2
    /\ Len(issues) = 2
    /\ issues[1] = "Missing tax code for expense: Meal"
    /\ issues[2] = "Potential tax code mismatch for expense: Hotel, expected tax: 20.00"

\* C7: load_file lets no failure escape and returns no data on failure: for
\* a file of an unsupported extension, and for a file of a supported
\* extension that the reader cannot parse, it shows an error to the user and
\* returns None.
C7Original ==
    (/\ pc # "load_file"
     /\ uploaded_file # NoFile
     /\ (Dispatch(uploaded_file) = "unsupported" \/ ~uploaded_file.readable))
    => /\ error = ""
       /\ returned = "None"
       /\ Len(st_errors) >= 1

\* C8: whenever a column one of the selectors names is absent from the
\* source table, rows or no rows, parse_concur_report and parse_tax_config
\* end in a KeyError and return nothing.
C8Original ==
    [][ /\ (pc = "parse_tax_config" /\ ConfigKeyError(config))
           => (pc' = "raised" /\ error' = "KeyError")
        /\ (pc = "parse_concur_report" /\ ReportKeyError(report'))
           => (pc' = "raised" /\ error' = "KeyError") ]_vars

C10MissingTaxSilent ==
    [][ (/\ AtRow
         /\ SourceOf(NextRow).Tax.t # "dec"
         /\ <<NextRow.Category, NextRow.Country>> \in DOMAIN tax_config)
        => /\ issues' = issues
           /\ ai' = ai + 1
           /\ pc' = "analyze_vat"
           /\ error' = "" ]_vars

C10Witness ==
    /\ Analysed
    /\ ai = 1
    /\ SourceOf(expense_data[1]).Tax.t = "str"
    /\ <<expense_data[1].Category, expense_data[1].Country>> \in DOMAIN tax_config
    /\ tax_config[<<expense_data[1].Category, expense_data[1].Country>>].t = "dec"
    /\ issues = <<>>

====
